---- MODULE Spec2Model ----
(***************************************************************************)
(* Model of src/PIL/Image.py: the lightweight PNG/JPEG header inspector.   *)
(*                                                                         *)
(* A file is a sequence of bytes (0..255).  Offsets are 0-based, as in the *)
(* source; At and Slice translate them to TLA+ sequences.  A call of open  *)
(* or ImageFile.verify is a process that moves through the source one      *)
(* block at a time (pc); the environment rewrites or deletes files only    *)
(* between calls, because the module is single-threaded and synchronous.   *)
(* TLC integers are 32-bit signed, so the files of the corpus keep the top *)
(* byte of every 32-bit field below 128.                                   *)
(***************************************************************************)
EXTENDS Integers, Sequences, FiniteSets, TLC

\* ---------------------------------------------------------------- bounds
\* Largest number of pieces (segments, fill bytes, stray bytes) after SOI
\* in a generated JPEG file.
MaxPieces == 3
\* Largest number of bytes after the first chunk header in a generated PNG.
MaxPngData == 10
\* Largest number of pieces after SOI in a JPEG file that gets extra fill
\* bytes, and largest number of fill bytes put in at one place.
MaxFillPieces == 2
MaxFill == 2

\* ------------------------------------------------------- byte sequences
Min(a, b) == IF a < b THEN a ELSE b

\* data[i] with a 0-based index
At(data, i) == data[i + 1]

\* data[a:b] of Python for 0 <= a: clipped at the end, empty when b <= a
Slice(data, a, b) == SubSeq(data, a + 1, Min(b, Len(data)))

\* bytes.startswith
StartsWith(s, p) == Len(s) >= Len(p) /\ SubSeq(s, 1, Len(p)) = p

\* struct.unpack(">H", b)[0]
BE16(b) == b[1] * 256 + b[2]

\* struct.unpack(">I", b)[0]
BE32(b) == ((b[1] * 256 + b[2]) * 256 + b[3]) * 256 + b[4]

\* b"\x89PNG\r\n\x1a\n"
PNG_SIGNATURE == <<137, 80, 78, 71, 13, 10, 26, 10>>
\* b"IHDR"
IHDR == <<73, 72, 68, 82>>
\* b"\xFF\xD8"
JPEG_SOI == <<255, 216>>

\* JPEG_MARKERS_WITH_SIZE as the whole range C0..CF
JPEG_MARKERS_WITH_SIZE_range == 192..207

JPEG_MARKERS_WITH_SIZE ==
    {192, 193, 194, 195, 197, 198, 199, 201, 202, 203, 205, 206, 207}

\* ------------------------------------------------------------ outcomes
NoSize == <<0, 0>>

\* a function returning (format, size)
Return(fmt, size) ==
    [kind |-> "return", format |-> fmt, size |-> size,
     type |-> "", msg |-> "", arg |-> ""]

\* a function raising type(msg) ; arg is the path interpolated in the text
Raise(type, msg, arg) ==
    [kind |-> "raise", format |-> "", size |-> NoSize,
     type |-> type, msg |-> msg, arg |-> arg]

Unidentified(msg) == Raise("UnidentifiedImageError", msg, "")

NoResult ==
    [kind |-> "none", format |-> "", size |-> NoSize,
     type |-> "", msg |-> "", arg |-> ""]

\* ------------------------------------------------------------- _read_png
\* UnpackII with the two fields taken in the other order
UnpackII_swapped(data) ==
    <<BE32(SubSeq(data, 5, 8)), BE32(SubSeq(data, 1, 4))>>

\* line 168: struct.unpack(">II", data[:8]) as (width, height)
UnpackII(data) == <<BE32(SubSeq(data, 1, 4)), BE32(SubSeq(data, 5, 8))>>

\* _read_png that is content with the 8 bytes of the dimensions
_read_png_lenient(content, pos) ==
    LET chunk_header == Slice(content, pos, pos + 8)
    IN  IF Len(chunk_header) # 8
        THEN [out |-> Unidentified("Incomplete PNG header"),
              pos |-> pos + Len(chunk_header), reads |-> <<"read(8)">>]
        ELSE
        LET length     == BE32(SubSeq(chunk_header, 1, 4))
            chunk_type == SubSeq(chunk_header, 5, 8)
        IN  IF chunk_type # IHDR \/ length < 8
            THEN [out |-> Unidentified("PNG missing IHDR chunk"),
                  pos |-> pos + 8, reads |-> <<"read(8)">>]
            ELSE
            LET data == Slice(content, pos + 8, pos + 8 + length)
            IN  IF Len(data) < 8
                THEN [out |-> Unidentified("Truncated PNG IHDR data"),
                      pos |-> pos + 8 + Len(data),
                      reads |-> <<"read(8)", "read(length)">>]
                ELSE [out |-> Return("PNG", UnpackII(SubSeq(data, 1, 8))),
                      pos |-> pos + 8 + Len(data),
                      reads |-> <<"read(8)", "read(length)">>]

\* _read_png that also wants the 4 CRC bytes behind the chunk data
_read_png_crc(content, pos) ==
    LET chunk_header == Slice(content, pos, pos + 8)
    IN  IF Len(chunk_header) # 8
        THEN [out |-> Unidentified("Incomplete PNG header"),
              pos |-> pos + Len(chunk_header), reads |-> <<"read(8)">>]
        ELSE
        LET length     == BE32(SubSeq(chunk_header, 1, 4))
            chunk_type == SubSeq(chunk_header, 5, 8)
        IN  IF chunk_type # IHDR \/ length < 8
            THEN [out |-> Unidentified("PNG missing IHDR chunk"),
                  pos |-> pos + 8, reads |-> <<"read(8)">>]
            ELSE
            LET data == Slice(content, pos + 8, pos + 8 + length + 4)
            IN  IF Len(data) # length + 4
                THEN [out |-> Unidentified("Truncated PNG IHDR data"),
                      pos |-> pos + 8 + Len(data),
                      reads |-> <<"read(8)", "read(length)">>]
                ELSE [out |-> Return("PNG", UnpackII(SubSeq(data, 1, 8))),
                      pos |-> pos + 8 + length + 4,
                      reads |-> <<"read(8)", "read(length)">>]

\* _read_png that accepts a first chunk of any type
_read_png_anytype(content, pos) ==
    LET chunk_header == Slice(content, pos, pos + 8)
    IN  IF Len(chunk_header) # 8
        THEN [out |-> Unidentified("Incomplete PNG header"),
              pos |-> pos + Len(chunk_header), reads |-> <<"read(8)">>]
        ELSE
        LET length == BE32(SubSeq(chunk_header, 1, 4))
        IN  IF length < 8
            THEN [out |-> Unidentified("PNG missing IHDR chunk"),
                  pos |-> pos + 8, reads |-> <<"read(8)">>]
            ELSE
            LET data == Slice(content, pos + 8, pos + 8 + length)
            IN  IF Len(data) # length
                THEN [out |-> Unidentified("Truncated PNG IHDR data"),
                      pos |-> pos + 8 + Len(data),
                      reads |-> <<"read(8)", "read(length)">>]
                ELSE [out |-> Return("PNG", UnpackII(SubSeq(data, 1, 8))),
                      pos |-> pos + 8 + length,
                      reads |-> <<"read(8)", "read(length)">>]

\* fp is positioned at pos in content.  The outcome, the position after the
\* reads and the fp.read calls made.
_read_png(content, pos) ==
    LET chunk_header == Slice(content, pos, pos + 8)
    IN  IF Len(chunk_header) # 8
        THEN [out |-> Unidentified("Incomplete PNG header"),
              pos |-> pos + Len(chunk_header), reads |-> <<"read(8)">>]
        ELSE
        LET length     == BE32(SubSeq(chunk_header, 1, 4))
            chunk_type == SubSeq(chunk_header, 5, 8)
        IN  IF chunk_type # IHDR \/ length < 8
            THEN [out |-> Unidentified("PNG missing IHDR chunk"),
                  pos |-> pos + 8, reads |-> <<"read(8)">>]
            ELSE
            LET data == Slice(content, pos + 8, pos + 8 + length)
            IN  IF Len(data) # length
                THEN [out |-> Unidentified("Truncated PNG IHDR data"),
                      pos |-> pos + 8 + Len(data),
                      reads |-> <<"read(8)", "read(length)">>]
                ELSE [out |-> Return("PNG", UnpackII(SubSeq(data, 1, 8))),
                      pos |-> pos + 8 + length,
                      reads |-> <<"read(8)", "read(length)">>]

\* --------------------------------------------------- _iter_jpeg_segments
\* lines 196-197: while offset < end and data[offset] == 0xFF: offset += 1
RECURSIVE SkipFill(_, _)
SkipFill(data, offset) ==
    IF offset < Len(data) /\ At(data, offset) = 255
    THEN SkipFill(data, offset + 1)
    ELSE offset

NoSegment == [marker |-> 0, segment_data |-> <<>>, length |-> 0]

\* How one resumption of the generator ends: kind is "yield", "stop" (the
\* loop condition is false, or break) or "raise"; offset is the local
\* variable at that point; hi is one past the highest index of data that
\* was indexed or sliced on the way.
Step(kind, msg, offset, hi, seg) ==
    [kind |-> kind, msg |-> msg, offset |-> offset, hi |-> hi, seg |-> seg]

\* ScanHeader that skips the scan header as a segment, and the scan goes on
ScanHeader_skipping(data, offset) ==
    IF offset + 2 > Len(data)
    THEN Step("raise", "Truncated JPEG scan header", offset, offset,
              NoSegment)
    ELSE LET length       == BE16(Slice(data, offset, offset + 2))
             o3           == offset + 2
             segment_data == Slice(data, o3, o3 + length - 2)
         IN  Step("yield", "", o3, o3 + Len(segment_data),
                  [marker |-> 218, segment_data |-> segment_data,
                   length |-> length])

\* lines 204-209: the Start of Scan marker; offset is just past the marker
ScanHeader(data, offset) ==
    IF offset + 2 > Len(data)
    THEN Step("raise", "Truncated JPEG scan header", offset, offset,
              NoSegment)
    ELSE LET length == BE16(Slice(data, offset, offset + 2))
         IN  Step("stop", "", offset + 2 + length, offset + 2, NoSegment)

\* ReadSegment that takes a declared length of 0 or 1 for an empty payload
ReadSegment_short(data, marker, offset) ==
    IF offset + 2 > Len(data)
    THEN Step("raise", "Truncated JPEG segment length", offset, offset,
              NoSegment)
    ELSE
    LET length       == BE16(Slice(data, offset, offset + 2))
        o3           == offset + 2
        segment_data == Slice(data, o3, o3 + length - 2)
    IN  IF length >= 2 /\ Len(segment_data) # length - 2
        THEN Step("raise", "Incomplete JPEG segment", o3,
                  o3 + Len(segment_data), NoSegment)
        ELSE Step("yield", "", o3, o3 + Len(segment_data),
                  [marker |-> marker, segment_data |-> segment_data,
                   length |-> length])

\* ReadSegment that wants the byte behind the payload, when there is one,
\* to be FF before it yields
ReadSegment_eager(data, marker, offset) ==
    IF offset + 2 > Len(data)
    THEN Step("raise", "Truncated JPEG segment length", offset, offset,
              NoSegment)
    ELSE
    LET length       == BE16(Slice(data, offset, offset + 2))
        o3           == offset + 2
        segment_data == Slice(data, o3, o3 + length - 2)
        o4           == o3 + Len(segment_data)
    IN  IF Len(segment_data) # length - 2
        THEN Step("raise", "Incomplete JPEG segment", o3, o4, NoSegment)
        ELSE IF o4 < Len(data) /\ At(data, o4) # 255
        THEN Step("raise", "Malformed JPEG marker", o4, o4 + 1, NoSegment)
        ELSE Step("yield", "", o3, o4,
                  [marker |-> marker, segment_data |-> segment_data,
                   length |-> length])

\* ReadSegment that yields whatever the slice holds, without line 215
ReadSegment_unchecked(data, marker, offset) ==
    IF offset + 2 > Len(data)
    THEN Step("raise", "Truncated JPEG segment length", offset, offset,
              NoSegment)
    ELSE
    LET length       == BE16(Slice(data, offset, offset + 2))
        o3           == offset + 2
        segment_data == Slice(data, o3, o3 + length - 2)
    IN  Step("yield", "", o3, o3 + Len(segment_data),
             [marker |-> marker, segment_data |-> segment_data,
              length |-> length])

\* lines 210-217: a length-prefixed segment; offset is just past the marker
ReadSegment(data, marker, offset) ==
    IF offset + 2 > Len(data)
    THEN Step("raise", "Truncated JPEG segment length", offset, offset,
              NoSegment)
    ELSE
    LET length       == BE16(Slice(data, offset, offset + 2))
        o3           == offset + 2
        segment_data == Slice(data, o3, o3 + length - 2)
    IN  IF Len(segment_data) # length - 2
        THEN Step("raise", "Incomplete JPEG segment", o3,
                  o3 + Len(segment_data), NoSegment)
        ELSE Step("yield", "", o3, o3 + Len(segment_data),
                  [marker |-> marker, segment_data |-> segment_data,
                   length |-> length])

\* AfterMarker that takes EOI for a marker with a length field
AfterMarker_noeoi(data, marker, offset) ==
    IF marker = 218 THEN ScanHeader(data, offset)
    ELSE ReadSegment(data, marker, offset)

\* lines 202-217: what the marker byte decides; offset is just past it
AfterMarker(data, marker, offset) ==
    IF marker = 217 THEN Step("stop", "", offset, offset, NoSegment)
    ELSE IF marker = 218 THEN ScanHeader(data, offset)
    ELSE ReadSegment(data, marker, offset)

\* SegmentStep that takes a byte other than FF for an empty segment and
\* goes on behind it
SegmentStep_resync(data, offset) ==
    LET end == Len(data)
    IN  IF ~(offset < end) THEN Step("stop", "", offset, 0, NoSegment)
        ELSE IF At(data, offset) # 255
        THEN Step("yield", "", offset + 1, offset + 1,
                  [marker |-> 0, segment_data |-> <<>>, length |-> 2])
        ELSE
        LET o1 == SkipFill(data, offset)
        IN  IF o1 >= end THEN Step("stop", "", o1, end, NoSegment)
            ELSE AfterMarker(data, At(data, o1), o1 + 1)

\* SegmentStep that takes fill bytes at the end of the data for a marker
\* cut short
SegmentStep_strict(data, offset) ==
    LET end == Len(data)
    IN  IF ~(offset < end) THEN Step("stop", "", offset, 0, NoSegment)
        ELSE IF At(data, offset) # 255
        THEN Step("raise", "Malformed JPEG marker", offset, offset + 1,
                  NoSegment)
        ELSE
        LET o1 == SkipFill(data, offset)
        IN  IF o1 >= end
            THEN Step("raise", "Malformed JPEG marker", o1, end, NoSegment)
            ELSE AfterMarker(data, At(data, o1), o1 + 1)

\* SegmentStep that takes the byte after one FF for the marker
SegmentStep_onefill(data, offset) ==
    LET end == Len(data)
    IN  IF ~(offset < end) THEN Step("stop", "", offset, 0, NoSegment)
        ELSE IF At(data, offset) # 255
        THEN Step("raise", "Malformed JPEG marker", offset, offset + 1,
                  NoSegment)
        ELSE
        LET o1 == offset + 1
        IN  IF o1 >= end THEN Step("stop", "", o1, end, NoSegment)
            ELSE AfterMarker(data, At(data, o1), o1 + 1)

\* lines 192-217: one pass of the generator from the loop head to the next
\* yield, to the end of the iteration or to a raise
SegmentStep(data, offset) ==
    LET end == Len(data)
    IN  IF ~(offset < end) THEN Step("stop", "", offset, 0, NoSegment)
        ELSE IF At(data, offset) # 255
        THEN Step("raise", "Malformed JPEG marker", offset, offset + 1,
                  NoSegment)
        ELSE
        LET o1 == SkipFill(data, offset)
        IN  IF o1 >= end THEN Step("stop", "", o1, end, NoSegment)
            ELSE AfterMarker(data, At(data, o1), o1 + 1)

\* ------------------------------------------------------------ _read_jpeg
Continue ==
    [kind |-> "continue", format |-> "", size |-> NoSize,
     type |-> "", msg |-> "", arg |-> ""]

\* UnpackHH returning (height, width)
UnpackHH_swapped(segment) ==
    LET b == Slice(segment, 1, 5)
    IN  <<BE16(SubSeq(b, 1, 2)), BE16(SubSeq(b, 3, 4))>>

\* line 238: height, width = struct.unpack(">HH", segment[1:5]), returned
\* as (width, height)
UnpackHH(segment) ==
    LET b == Slice(segment, 1, 5)
    IN  <<BE16(SubSeq(b, 3, 4)), BE16(SubSeq(b, 1, 2))>>

\* ConsumeSegment that passes over a SOF segment too short for dimensions
ConsumeSegment_passing(marker, segment) ==
    IF marker \in JPEG_MARKERS_WITH_SIZE /\ Len(segment) >= 5
    THEN Return("JPEG", UnpackHH(segment))
    ELSE Continue

\* lines 235-239, the body of the for loop for one yielded segment: the
\* outcome of _read_jpeg, or "continue" when the loop asks for the next one
ConsumeSegment(marker, segment) ==
    IF marker \in JPEG_MARKERS_WITH_SIZE
    THEN IF Len(segment) < 5
         THEN Unidentified("JPEG SOF segment too short")
         ELSE Return("JPEG", UnpackHH(segment))
    ELSE Continue

\* -------------------------------------------------- _load_image_metadata
\* Sniff that takes any leading FF for a JPEG
Sniff_loose(signature) ==
    IF StartsWith(signature, PNG_SIGNATURE) THEN "PNG"
    ELSE IF StartsWith(signature, <<255>>) THEN "JPEG"
    ELSE "unsupported"

\* Sniff that wants all 8 signature bytes before it looks at them
Sniff_full8(signature) ==
    IF Len(signature) < 8 THEN "unsupported"
    ELSE IF StartsWith(signature, PNG_SIGNATURE) THEN "PNG"
    ELSE IF StartsWith(signature, JPEG_SOI) THEN "JPEG"
    ELSE "unsupported"

\* lines 139-144: the branch taken for the bytes returned by fp.read(8)
Sniff(signature) ==
    IF StartsWith(signature, PNG_SIGNATURE) THEN "PNG"
    ELSE IF StartsWith(signature, JPEG_SOI) THEN "JPEG"
    ELSE "unsupported"

\* ---------------------------------------------------------- file corpus
RECURSIVE Concat(_)
Concat(seqs) == IF seqs = <<>> THEN <<>> ELSE Head(seqs) \o Concat(Tail(seqs))

\* Building blocks of the JPEG files, each placed where a marker may start.
JpegPieces ==
    { <<255, 192, 0, 7, 8, 1, 2, 3, 4>>,       \* SOF0, payload 5: 772 x 258
      <<255, 194, 0, 8, 8, 0, 100, 0, 200, 3>>, \* SOF2, payload 6: 200 x 100
      <<255, 193, 0, 6, 8, 0, 100, 0>>,         \* SOF1, payload 4
      <<255, 196, 0, 7, 8, 0, 9, 0, 10>>,       \* DHT (C4), payload 5
      <<255, 0, 0, 2>>,                         \* FF 00 with length 2
      <<255, 217>>,                             \* EOI
      <<255, 218, 0, 2>>,                       \* SOS, length 2
      <<255, 218, 0, 9>>,                       \* SOS, length beyond the data
      <<255, 218, 0>>,                          \* SOS, length cut
      <<255>>,                                  \* fill byte
      <<0>>,                                    \* stray byte
      <<255, 224, 0>>,                          \* APP0, length cut
      <<255, 224, 0, 1>> }                      \* APP0, length 1

JpegFiles ==
    { JPEG_SOI \o Concat(ps) :
        ps \in UNION { [1..n -> JpegPieces] : n \in 0..MaxPieces } }

PngLengthFields ==
    { <<0, 0, 0, 0>>, <<0, 0, 0, 7>>, <<0, 0, 0, 8>>, <<0, 0, 0, 9>>,
      <<0, 0, 1, 0>> }

PngChunkTypes == { IHDR, <<73, 68, 65, 84>>, <<73, 72, 68, 83>> }

PngHeads == { <<0, 0, 1, 0, 0, 0, 0, 200>>, <<1, 2, 3, 4, 5, 6, 7, 8>> }

PngData(head, n) == SubSeq(head \o [i \in 1..MaxPngData |-> i], 1, n)

PngFiles ==
    { PNG_SIGNATURE \o len \o type \o PngData(head, n) :
        len \in PngLengthFields, type \in PngChunkTypes,
        head \in PngHeads, n \in 0..MaxPngData }

Prefixes(s) == { SubSeq(s, 1, n) : n \in 0..Len(s) }

OtherFiles ==
    Prefixes(PNG_SIGNATURE \o <<0, 0, 0, 8>> \o IHDR)
    \cup Prefixes(<<71, 73, 70, 56, 57, 97, 1, 0, 1, 0>>)
    \cup { <<137, 80, 78, 71, 13, 10, 26, 11, 0, 0, 0, 8, 73, 72, 68, 82,
             0, 0, 1, 0, 0, 0, 0, 200>>,
           <<255, 217, 255, 192, 0, 7, 8, 1, 2, 3, 4>>,
           <<216, 255, 255, 192, 0, 7, 8, 1, 2, 3, 4>>,
           <<0, 255, 216, 255, 192, 0, 7, 8, 1, 2, 3, 4>> }

Corpus == JpegFiles \cup PngFiles \cup OtherFiles

\* What another program leaves in place of a file: valid images of
\* either format, the same images cut short, a stream without dimensions,
\* something that is no image, nothing.
Replacements ==
    { PNG_SIGNATURE \o <<0, 0, 0, 8>> \o IHDR \o <<0, 0, 1, 0, 0, 0, 0, 200>>,
      PNG_SIGNATURE \o <<0, 0, 0, 8>> \o IHDR \o <<1, 2, 3, 4, 5, 6, 7, 8>>,
      PNG_SIGNATURE \o <<0, 0, 0, 8>> \o IHDR \o <<0, 0, 1, 0, 0, 0, 0>>,
      JPEG_SOI \o <<255, 192, 0, 7, 8, 1, 2, 3, 4>>,
      JPEG_SOI \o <<255, 194, 0, 8, 8, 0, 100, 0, 200, 3>>,
      JPEG_SOI \o <<255, 192, 0, 7, 8, 1, 2, 3>>,
      JPEG_SOI \o <<255, 217>>,
      <<71, 73, 70, 56, 57, 97, 1, 0, 1, 0>>,
      <<>> }

\* ------------------------------------------------------------- the state
Paths == {"a.img"}

\* an already-open binary stream: an object with a read attribute
Stream == "<stream>"

\* the mode argument; "None" is the default
Modes == {"None", "r", "w", "rb"}

Missing == [exists |-> FALSE, data |-> <<>>]
File(d) == [exists |-> TRUE, data |-> d]

NoCall == [op |-> "none", fp |-> "", mode |-> "None"]

NoImage == [valid |-> FALSE, path |-> "", format |-> "", size |-> NoSize]

\* the dataclass ImageFile(path, format, size)
ImageFile(path, fmt, size) ==
    [valid |-> TRUE, path |-> path, format |-> fmt, size |-> size]

Closed == [open |-> FALSE, pos |-> 0]

Max(a, b) == IF a > b THEN a ELSE b

\* no with block is running on the handle
NoScope == [active |-> FALSE, target |-> NoImage, body |-> "none"]

VARIABLES
    fs,        \* the file system: path -> [exists, data]
    pc,        \* position of the running call, "idle" between calls
    call,      \* the running or last call: [op, fp, mode]
    fd,        \* the file object of _load_image_metadata: [open, pos]
    data,      \* local data of _iter_jpeg_segments
    offset,    \* local offset of _iter_jpeg_segments
    scanned,   \* one past the highest index of data examined so far
    seg,       \* the segment yielded to _read_jpeg
    pending,   \* outcome travelling out of the with block
    result,    \* outcome of the last call, while the files are as it left them
    img,       \* the caller's handle, as returned by the last successful open
    modified,  \* the file of img was rewritten or deleted since that open
    io,        \* operations of the running or last call, in order
    scope,     \* the caller's with block on img: [active, target, body]
    procs      \* the calls of the concurrent runs, one frame per call

vars == <<fs, pc, call, fd, data, offset, scanned, seg, pending, result, img,
          modified, io, scope, procs>>

\* the frame of the JPEG scan
locals == <<data, offset, scanned, seg>>

Init ==
    /\ fs \in [Paths -> {Missing} \cup { File(d) : d \in Corpus }]
    /\ pc = "idle"
    /\ call = NoCall
    /\ fd = Closed
    /\ data = <<>>
    /\ offset = 0
    /\ scanned = 0
    /\ seg = NoSegment
    /\ pending = NoResult
    /\ result = NoResult
    /\ img = NoImage
    /\ modified = FALSE
    /\ io = <<>>
    /\ scope = NoScope
    /\ procs = <<>>

\* a new call starts with a fresh frame
FreshFrame ==
    /\ data' = <<>>
    /\ offset' = 0
    /\ scanned' = 0
    /\ seg' = NoSegment

\* line 94: hasattr(fp, "read")
HasRead(fp) == fp = Stream

\* -------------------------------------------------------------- open
\* open_enter of a module that keeps one current image and drops it when
\* the next open starts
open_enter_dropping(fp, mode) ==
    /\ pc = "idle"
    /\ ~scope.active
    /\ call' = [op |-> "open", fp |-> fp, mode |-> mode]
    /\ io' = <<>>
    /\ FreshFrame
    /\ img' = NoImage
    /\ IF mode \notin {"None", "r"}
       THEN /\ result' = Raise("ValueError",
                   "Only read mode is supported in the lightweight stub", "")
            /\ pc' = "idle"
       ELSE IF HasRead(fp)
       THEN /\ result' = Raise("TypeError",
                   "File-object inputs are not supported in the lightweight stub",
                   "")
            /\ pc' = "idle"
       ELSE /\ result' = NoResult
            /\ pc' = "open_exists"
    /\ UNCHANGED <<fs, fd, pending, modified>>
    /\ UNCHANGED <<scope, procs>>

\* open_enter that lets the binary read mode "rb" through
open_enter_rb(fp, mode) ==
    /\ pc = "idle"
    /\ ~scope.active
    /\ call' = [op |-> "open", fp |-> fp, mode |-> mode]
    /\ io' = <<>>
    /\ FreshFrame
    /\ IF mode \notin {"None", "r", "rb"}
       THEN /\ result' = Raise("ValueError",
                   "Only read mode is supported in the lightweight stub", "")
            /\ pc' = "idle"
       ELSE IF HasRead(fp)
       THEN /\ result' = Raise("TypeError",
                   "File-object inputs are not supported in the lightweight stub",
                   "")
            /\ pc' = "idle"
       ELSE /\ result' = NoResult
            /\ pc' = "open_exists"
    /\ UNCHANGED <<fs, fd, pending, img, modified>>
    /\ UNCHANGED <<scope, procs>>

\* lines 91-95: the argument checks
open_enter(fp, mode) ==
    /\ pc = "idle"
    /\ ~scope.active
    /\ call' = [op |-> "open", fp |-> fp, mode |-> mode]
    /\ io' = <<>>
    /\ FreshFrame
    /\ IF mode \notin {"None", "r"}
       THEN /\ result' = Raise("ValueError",
                   "Only read mode is supported in the lightweight stub", "")
            /\ pc' = "idle"
       ELSE IF HasRead(fp)
       THEN /\ result' = Raise("TypeError",
                   "File-object inputs are not supported in the lightweight stub",
                   "")
            /\ pc' = "idle"
       ELSE /\ result' = NoResult
            /\ pc' = "open_exists"
    /\ UNCHANGED <<fs, fd, pending, img, modified>>
    /\ UNCHANGED <<scope, procs>>

\* open_exists that leaves the missing file to builtins.open
open_exists_unchecked ==
    /\ pc = "open_exists"
    /\ io' = Append(io, "exists")
    /\ result' = result
    /\ pc' = "load_open"
    /\ UNCHANGED <<fs, call, fd, locals, pending, img, modified>>
    /\ UNCHANGED <<scope, procs>>

\* lines 97-99: os.path.exists
open_exists ==
    /\ pc = "open_exists"
    /\ io' = Append(io, "exists")
    /\ IF ~fs[call.fp].exists
       THEN /\ result' = Raise("FileNotFoundError", "", call.fp)
            /\ pc' = "idle"
       ELSE /\ result' = result
            /\ pc' = "load_open"
    /\ UNCHANGED <<fs, call, fd, locals, pending, img, modified>>
    /\ UNCHANGED <<scope, procs>>

\* -------------------------------------------------- ImageFile.verify
\* line 59: _load_image_metadata(self.path)
verify_enter ==
    /\ pc = "idle"
    /\ img.valid
    /\ call' = [op |-> "verify", fp |-> img.path, mode |-> "None"]
    /\ io' = <<>>
    /\ FreshFrame
    /\ result' = NoResult
    /\ pc' = "load_open"
    /\ UNCHANGED <<fs, fd, pending, img, modified>>
    /\ UNCHANGED <<scope, procs>>

\* ------------------------------------------------ _load_image_metadata
\* line 137: builtins.open(path, "rb"), which raises when the file is gone
load_open ==
    /\ pc = "load_open"
    /\ IF ~fs[call.fp].exists
       THEN /\ result' = Raise("FileNotFoundError", "", call.fp)
            /\ io' = Append(io, "open fails")
            /\ pc' = "idle"
            /\ fd' = fd
       ELSE /\ fd' = [open |-> TRUE, pos |-> 0]
            /\ io' = Append(io, "open")
            /\ pc' = "load_sig"
            /\ result' = result
    /\ UNCHANGED <<fs, call, locals, pending, img, modified>>
    /\ UNCHANGED <<scope, procs>>

\* lines 138-144: read the signature and dispatch
load_sig ==
    /\ pc = "load_sig"
    /\ LET signature == Slice(fs[call.fp].data, fd.pos, fd.pos + 8)
           branch    == Sniff(signature)
       IN  CASE branch = "PNG" ->
                /\ fd' = [fd EXCEPT !.pos = fd.pos + Len(signature)]
                /\ io' = Append(io, "read(8)")
                /\ pc' = "read_png"
                /\ pending' = pending
           [] branch = "JPEG" ->
                /\ fd' = [fd EXCEPT !.pos = 0]
                /\ io' = io \o <<"read(8)", "seek(0)">>
                /\ pc' = "read_jpeg"
                /\ pending' = pending
           [] OTHER ->
                /\ fd' = [fd EXCEPT !.pos = fd.pos + Len(signature)]
                /\ io' = Append(io, "read(8)")
                /\ pc' = "load_exit"
                /\ pending' = Raise("UnidentifiedImageError",
                                    "Unsupported image format in ", call.fp)
    /\ UNCHANGED <<fs, call, locals, result, img, modified>>
    /\ UNCHANGED <<scope, procs>>

\* line 140: _read_png(fp)
read_png ==
    /\ pc = "read_png"
    /\ LET r == _read_png(fs[call.fp].data, fd.pos)
       IN  /\ pending' = r.out
           /\ fd' = [fd EXCEPT !.pos = r.pos]
           /\ io' = io \o r.reads
    /\ pc' = "load_exit"
    /\ UNCHANGED <<fs, call, locals, result, img, modified>>
    /\ UNCHANGED <<scope, procs>>

\* lines 187-191: the generator's first resumption reads the rest of the file
iter_start ==
    /\ pc = "read_jpeg"
    /\ LET content == fs[call.fp].data
           d       == Slice(content, fd.pos, Len(content))
       IN  /\ data' = d
           /\ fd' = [fd EXCEPT !.pos = fd.pos + Len(d)]
           /\ io' = Append(io, "read()")
           /\ scanned' = Min(2, Len(d))
           /\ IF ~StartsWith(d, JPEG_SOI)
              THEN /\ pending' = Unidentified("Invalid JPEG signature")
                   /\ pc' = "load_exit"
                   /\ offset' = offset
              ELSE /\ pending' = pending
                   /\ pc' = "jpeg_loop"
                   /\ offset' = 2
    /\ UNCHANGED <<fs, call, seg, result, img, modified>>
    /\ UNCHANGED <<scope, procs>>

\* lines 192-217: the generator runs to its next yield, to its end or to a
\* raise; line 240 when it ends
iter_next ==
    /\ pc = "jpeg_loop"
    /\ LET s == SegmentStep(data, offset)
       IN  /\ offset' = s.offset
           /\ scanned' = Max(scanned, s.hi)
           /\ seg' = s.seg
           /\ CASE s.kind = "yield" ->
                     /\ pc' = "jpeg_body"
                     /\ pending' = pending
                [] s.kind = "stop" ->
                     /\ pc' = "load_exit"
                     /\ pending' =
                          Unidentified("Could not determine JPEG dimensions")
                [] s.kind = "raise" ->
                     /\ pc' = "load_exit"
                     /\ pending' = Unidentified(s.msg)
    /\ UNCHANGED <<fs, call, fd, data, result, img, modified, io>>
    /\ UNCHANGED <<scope, procs>>

\* lines 235-239 for the yielded segment, then line 218 when the loop
\* goes on
read_jpeg_body ==
    /\ pc = "jpeg_body"
    /\ LET c == ConsumeSegment(seg.marker, seg.segment_data)
       IN  IF c.kind = "continue"
           THEN /\ offset' = offset + seg.length - 2
                /\ pc' = "jpeg_loop"
                /\ pending' = pending
           ELSE /\ offset' = offset
                /\ pc' = "load_exit"
                /\ pending' = c
    /\ UNCHANGED <<fs, call, fd, data, scanned, seg, result, img, modified,
                   io>>
    /\ UNCHANGED <<scope, procs>>

\* load_exit of a verify that reports nothing: its errors stay inside
load_exit_swallowing ==
    /\ pc = "load_exit"
    /\ fd' = Closed
    /\ io' = Append(io, "close")
    /\ pending' = NoResult
    /\ pc' = "idle"
    /\ IF call.op = "open"
       THEN /\ result' = pending
            /\ IF pending.kind = "return"
               THEN /\ img' = ImageFile(call.fp, pending.format, pending.size)
                    /\ modified' = FALSE
               ELSE UNCHANGED <<img, modified>>
       ELSE /\ result' = Return("", NoSize)
            /\ UNCHANGED <<img, modified>>
    /\ UNCHANGED <<fs, call, locals>>
    /\ UNCHANGED <<scope, procs>>

\* load_exit of a verify that stores what it parsed in the handle
load_exit_updating ==
    /\ pc = "load_exit"
    /\ fd' = Closed
    /\ io' = Append(io, "close")
    /\ pending' = NoResult
    /\ pc' = "idle"
    /\ IF call.op = "open"
       THEN /\ result' = pending
            /\ IF pending.kind = "return"
               THEN /\ img' = ImageFile(call.fp, pending.format, pending.size)
                    /\ modified' = FALSE
               ELSE UNCHANGED <<img, modified>>
       ELSE /\ result' = IF pending.kind = "return"
                         THEN Return("", NoSize)
                         ELSE pending
            /\ img' = IF pending.kind = "return"
                      THEN ImageFile(call.fp, pending.format, pending.size)
                      ELSE img
            /\ UNCHANGED modified
    /\ UNCHANGED <<fs, call, locals>>
    /\ UNCHANGED <<scope, procs>>

\* load_exit of an open that falls back to an empty handle when the parse
\* fails
load_exit_fallback ==
    /\ pc = "load_exit"
    /\ fd' = Closed
    /\ io' = Append(io, "close")
    /\ pending' = NoResult
    /\ pc' = "idle"
    /\ IF call.op = "open"
       THEN IF pending.kind = "return"
            THEN /\ result' = pending
                 /\ img' = ImageFile(call.fp, pending.format, pending.size)
                 /\ modified' = FALSE
            ELSE /\ result' = Return("", NoSize)
                 /\ img' = ImageFile(call.fp, "", NoSize)
                 /\ modified' = FALSE
       ELSE /\ result' = IF pending.kind = "return"
                         THEN Return("", NoSize)
                         ELSE pending
            /\ UNCHANGED <<img, modified>>
    /\ UNCHANGED <<fs, call, locals>>
    /\ UNCHANGED <<scope, procs>>

\* load_exit that closes the file when the parse returned, and leaves it
\* open when the parse raised
load_exit_leaking ==
    /\ pc = "load_exit"
    /\ fd' = IF pending.kind = "return" THEN Closed ELSE fd
    /\ io' = IF pending.kind = "return" THEN Append(io, "close") ELSE io
    /\ pending' = NoResult
    /\ pc' = "idle"
    /\ IF call.op = "open"
       THEN /\ result' = pending
            /\ IF pending.kind = "return"
               THEN /\ img' = ImageFile(call.fp, pending.format, pending.size)
                    /\ modified' = FALSE
               ELSE UNCHANGED <<img, modified>>
       ELSE /\ result' = IF pending.kind = "return"
                         THEN Return("", NoSize)
                         ELSE pending
            /\ UNCHANGED <<img, modified>>
    /\ UNCHANGED <<fs, call, locals>>
    /\ UNCHANGED <<scope, procs>>

\* load_exit after which a verified handle can no longer be used
load_exit_consuming ==
    /\ pc = "load_exit"
    /\ fd' = Closed
    /\ io' = Append(io, "close")
    /\ pending' = NoResult
    /\ pc' = "idle"
    /\ IF call.op = "open"
       THEN /\ result' = pending
            /\ IF pending.kind = "return"
               THEN /\ img' = ImageFile(call.fp, pending.format, pending.size)
                    /\ modified' = FALSE
               ELSE UNCHANGED <<img, modified>>
       ELSE /\ result' = IF pending.kind = "return"
                         THEN Return("", NoSize)
                         ELSE pending
            /\ img' = NoImage
            /\ UNCHANGED modified
    /\ UNCHANGED <<fs, call, locals>>
    /\ UNCHANGED <<scope, procs>>

\* the with block closes the file; the outcome reaches open (lines 101-102),
\* which builds the ImageFile, or verify (line 59), which drops it
load_exit ==
    /\ pc = "load_exit"
    /\ fd' = Closed
    /\ io' = Append(io, "close")
    /\ pending' = NoResult
    /\ pc' = "idle"
    /\ IF call.op = "open"
       THEN /\ result' = pending
            /\ IF pending.kind = "return"
               THEN /\ img' = ImageFile(call.fp, pending.format, pending.size)
                    /\ modified' = FALSE
               ELSE UNCHANGED <<img, modified>>
       ELSE /\ result' = IF pending.kind = "return"
                         THEN Return("", NoSize)
                         ELSE pending
            /\ UNCHANGED <<img, modified>>
    /\ UNCHANGED <<fs, call, locals>>
    /\ UNCHANGED <<scope, procs>>

\* ------------------------------------------- ImageFile as a with block
\* lines 40-47: __enter__ returns the handle itself
__enter__(self) == self

\* close that releases the handle, which is then no handle any more
close_releasing(self) == [self |-> NoImage, ret |-> "None"]

\* lines 61-67: close has an empty body: the handle is as it was, and the
\* call returns None
close(self) == [self |-> self, ret |-> "None"]

\* __exit__ that returns a true value
__exit__suppressing(self, exc_type) ==
    LET c == close(self)
    IN  [self |-> c.self, closes |-> <<"close()">>, ret |-> "True"]

\* lines 49-55: __exit__ calls close once, whatever the body did, and
\* returns None
__exit__(self, exc_type) ==
    LET c == close(self)
    IN  [self |-> c.self, closes |-> <<"close()">>, ret |-> "None"]

\* what a body that runs to its end, or raises on its own, hands to __exit__
BodyOutcomes == {"none", "RuntimeError"}

\* the with statement binds the value of __enter__
scope_enter ==
    /\ pc = "idle"
    /\ img.valid
    /\ ~scope.active
    /\ scope' = [active |-> TRUE, target |-> __enter__(img), body |-> "none"]
    /\ call' = [op |-> "__enter__", fp |-> img.path, mode |-> "None"]
    /\ result' = NoResult
    /\ io' = <<>>
    /\ FreshFrame
    /\ UNCHANGED <<fs, pc, fd, pending, img, modified, procs>>

\* line 61: the caller calls close, inside a with block or outside
close_call ==
    /\ pc = "idle"
    /\ img.valid
    /\ LET c == close(img)
       IN  /\ img' = c.self
           /\ result' = Return("", NoSize)
    /\ call' = [op |-> "close", fp |-> img.path, mode |-> "None"]
    /\ io' = <<"close()">>
    /\ FreshFrame
    /\ UNCHANGED <<fs, pc, fd, pending, modified, scope, procs>>

\* lines 32-67: the names that an ImageFile has: the fields of the
\* dataclass and the methods of the class
Attributes == {"path", "format", "size", "__enter__", "__exit__", "verify",
               "close"}

\* the caller calls img.load(), as the image test does in its second with
\* block: the lookup of a name the class does not have raises
\* AttributeError
load_call ==
    /\ pc = "idle"
    /\ img.valid
    /\ call' = [op |-> "load", fp |-> img.path, mode |-> "None"]
    /\ result' = IF "load" \in Attributes
                 THEN Return("", NoSize)
                 ELSE Raise("AttributeError",
                            "'ImageFile' object has no attribute ", "load")
    /\ io' = <<>>
    /\ FreshFrame
    /\ UNCHANGED <<fs, pc, fd, pending, img, modified, scope, procs>>

\* the body of the with block ends: with the error of the verify or load
\* it just made, or else normally or with an error of its own
body_end(e) ==
    /\ pc = "idle"
    /\ scope.active
    /\ scope' = [scope EXCEPT !.body =
                    IF call.op \in {"verify", "load"} /\ result.kind = "raise"
                    THEN result.type ELSE e]
    /\ pc' = "scope_exit"
    /\ UNCHANGED <<fs, call, fd, locals, pending, result, img, modified, io,
                   procs>>

\* the with statement calls __exit__ on the handle, and raises the body's
\* error again unless __exit__ returned a true value: the very exception
\* of the verify or load, with its message, or the body's own error, which
\* has none
scope_exit ==
    /\ pc = "scope_exit"
    /\ LET x == __exit__(img, scope.body)
       IN  /\ img' = x.self
           /\ io' = x.closes
           /\ result' = IF scope.body = "none" \/ x.ret = "True"
                        THEN Return("", NoSize)
                        ELSE IF call.op \in {"verify", "load"}
                                /\ result.kind = "raise"
                        THEN result
                        ELSE Raise(scope.body, "", "")
    /\ call' = [op |-> "__exit__", fp |-> img.path, mode |-> "None"]
    /\ scope' = NoScope
    /\ pc' = "idle"
    /\ FreshFrame
    /\ UNCHANGED <<fs, fd, pending, modified, procs>>

\* -------------------------------------------------------- environment
\* Another program rewrites a file between two calls.
WriteFile(p, d) ==
    /\ pc = "idle"
    /\ ~scope.active
    /\ fs[p] # File(d)
    /\ fs' = [fs EXCEPT ![p] = File(d)]
    /\ modified' = (modified \/ (img.valid /\ img.path = p))
    /\ result' = NoResult
    /\ call' = NoCall
    /\ io' = <<>>
    /\ FreshFrame
    /\ UNCHANGED <<pc, fd, pending, img>>
    /\ UNCHANGED <<scope, procs>>

\* Another program deletes a file between two calls.
DeleteFile(p) ==
    /\ pc = "idle"
    /\ ~scope.active
    /\ fs[p].exists
    /\ fs' = [fs EXCEPT ![p] = Missing]
    /\ modified' = (modified \/ (img.valid /\ img.path = p))
    /\ result' = NoResult
    /\ call' = NoCall
    /\ io' = <<>>
    /\ FreshFrame
    /\ UNCHANGED <<pc, fd, pending, img>>
    /\ UNCHANGED <<scope, procs>>

Next ==
    \/ \E fp \in Paths \cup {Stream}, mode \in Modes : open_enter(fp, mode)
    \/ open_exists
    \/ verify_enter
    \/ load_open
    \/ load_sig
    \/ read_png
    \/ iter_start
    \/ iter_next
    \/ read_jpeg_body
    \/ load_exit
    \/ scope_enter
    \/ close_call
    \/ load_call
    \/ \E e \in BodyOutcomes : body_end(e)
    \/ scope_exit
    \/ \E p \in Paths, d \in Replacements : WriteFile(p, d)
    \/ \E p \in Paths : DeleteFile(p)

Spec == Init /\ [][Next]_vars

\* the steps of a call; a call that has begun goes on to its end
CallNext ==
    \/ open_exists
    \/ load_open
    \/ load_sig
    \/ read_png
    \/ iter_start
    \/ iter_next
    \/ read_jpeg_body
    \/ load_exit

SpecFair == Spec /\ WF_vars(CallNext)

\* =================================================================
\* Concurrent callers.  Each caller makes one call, open(path) or verify()
\* on a handle of path, on a file of its own; the steps of the calls
\* interleave, and no file changes.
Callers == {1, 2}

\* the callers work on different files
PathOf(i) == <<"a.img", "b.img">>[i]
ConcPaths == { PathOf(i) : i \in Callers }

\* BufferOf of a module that keeps the bytes it read in one module-level
\* buffer
BufferOf_shared(i) == 1

\* line 187: data is a local of the generator of each call
BufferOf(i) == i

\* a call about to start: the file object and the locals of lines 137-138
\* and 187-191, and the outcome that reaches the caller
StartFrame(op, path) ==
    [pc |-> "start", op |-> op, path |-> path, open |-> FALSE, pos |-> 0,
     offset |-> 0, seg |-> NoSegment, pending |-> NoResult,
     result |-> NoResult]

\* one step of a call: the frame f and the buffer d after it, for the file
\* as it is; the steps are those of open_exists .. load_exit above
CallStep(f, d, file) ==
    CASE f.pc = "start" ->
           [f |-> [f EXCEPT !.pc = IF f.op = "open" THEN "open_exists"
                                   ELSE "load_open"],
            d |-> d]
      [] f.pc = "open_exists" ->
           [f |-> IF ~file.exists
                  THEN [f EXCEPT !.pc = "done",
                           !.result = Raise("FileNotFoundError", "", f.path)]
                  ELSE [f EXCEPT !.pc = "load_open"],
            d |-> d]
      [] f.pc = "load_open" ->
           [f |-> IF ~file.exists
                  THEN [f EXCEPT !.pc = "done",
                           !.result = Raise("FileNotFoundError", "", f.path)]
                  ELSE [f EXCEPT !.pc = "load_sig", !.open = TRUE, !.pos = 0],
            d |-> d]
      [] f.pc = "load_sig" ->
           LET signature == Slice(file.data, f.pos, f.pos + 8)
               branch    == Sniff(signature)
           IN  [f |-> CASE branch = "PNG" ->
                             [f EXCEPT !.pc = "read_png",
                                       !.pos = f.pos + Len(signature)]
                        [] branch = "JPEG" ->
                             [f EXCEPT !.pc = "read_jpeg", !.pos = 0]
                        [] OTHER ->
                             [f EXCEPT !.pc = "load_exit",
                                 !.pos = f.pos + Len(signature),
                                 !.pending =
                                    Raise("UnidentifiedImageError",
                                          "Unsupported image format in ",
                                          f.path)],
                d |-> d]
      [] f.pc = "read_png" ->
           LET r == _read_png(file.data, f.pos)
           IN  [f |-> [f EXCEPT !.pc = "load_exit", !.pos = r.pos,
                                !.pending = r.out],
                d |-> d]
      [] f.pc = "read_jpeg" ->
           LET rest == Slice(file.data, f.pos, Len(file.data))
           IN  [f |-> IF ~StartsWith(rest, JPEG_SOI)
                      THEN [f EXCEPT !.pc = "load_exit",
                               !.pos = f.pos + Len(rest),
                               !.pending =
                                  Unidentified("Invalid JPEG signature")]
                      ELSE [f EXCEPT !.pc = "jpeg_loop",
                               !.pos = f.pos + Len(rest), !.offset = 2],
                d |-> rest]
      [] f.pc = "jpeg_loop" ->
           LET s == SegmentStep(d, f.offset)
               g == [f EXCEPT !.offset = s.offset, !.seg = s.seg]
           IN  [f |-> CASE s.kind = "yield" -> [g EXCEPT !.pc = "jpeg_body"]
                        [] s.kind = "stop" ->
                             [g EXCEPT !.pc = "load_exit",
                                 !.pending = Unidentified(
                                    "Could not determine JPEG dimensions")]
                        [] s.kind = "raise" ->
                             [g EXCEPT !.pc = "load_exit",
                                 !.pending = Unidentified(s.msg)],
                d |-> d]
      [] f.pc = "jpeg_body" ->
           LET c == ConsumeSegment(f.seg.marker, f.seg.segment_data)
           IN  [f |-> IF c.kind = "continue"
                      THEN [f EXCEPT !.pc = "jpeg_loop",
                               !.offset = f.offset + f.seg.length - 2]
                      ELSE [f EXCEPT !.pc = "load_exit", !.pending = c],
                d |-> d]
      [] f.pc = "load_exit" ->
           [f |-> [f EXCEPT !.pc = "done", !.open = FALSE,
                      !.pending = NoResult,
                      !.result = IF f.op = "open" \/ f.pending.kind # "return"
                                 THEN f.pending
                                 ELSE Return("", NoSize)],
            d |-> d]

\* the outcome of a call whose steps run one after the other, on a buffer
\* that nobody else touches
RECURSIVE RunAlone(_, _, _)
RunAlone(f, d, file) ==
    IF f.pc = "done" THEN f.result
    ELSE LET n == CallStep(f, d, file) IN RunAlone(n.f, n.d, file)

\* another call is between its first step and its last
Overlaps(i) ==
    \E j \in Callers \ {i} : procs.frames[j].pc \notin {"start", "done"}

InitConc ==
    /\ fs \in [ConcPaths -> {Missing} \cup { File(d) : d \in Replacements }]
    /\ \E ops \in [Callers -> {"open", "verify"}] :
          procs = [frames  |-> [i \in Callers |->
                                   StartFrame(ops[i], PathOf(i))],
                   bufs    |-> [b \in { BufferOf(i) : i \in Callers } |->
                                   <<>>],
                   overlap |-> FALSE]
    /\ pc = "idle"
    /\ call = NoCall
    /\ fd = Closed
    /\ data = <<>>
    /\ offset = 0
    /\ scanned = 0
    /\ seg = NoSegment
    /\ pending = NoResult
    /\ result = NoResult
    /\ img = NoImage
    /\ modified = FALSE
    /\ io = <<>>
    /\ scope = NoScope

\* caller i takes the next step of its call
conc_step(i) ==
    /\ procs.frames[i].pc # "done"
    /\ LET n == CallStep(procs.frames[i], procs.bufs[BufferOf(i)],
                         fs[procs.frames[i].path])
       IN  procs' = [frames  |-> [procs.frames EXCEPT ![i] = n.f],
                     bufs    |-> [procs.bufs EXCEPT ![BufferOf(i)] = n.d],
                     overlap |-> procs.overlap \/
                                 (procs.frames[i].pc # "start" /\ Overlaps(i))]
    /\ UNCHANGED <<fs, pc, call, fd, locals, pending, result, img, modified,
                   io, scope>>

NextConc == \E i \in Callers : conc_step(i)

SpecConc == InitConc /\ [][NextConc]_vars

\* =================================================================
\* Related files.  Two files that differ in one respect are identified,
\* each by a call of its own that runs from its first step to its last.

\* a segment as it lies in a file: FF, the marker, the length and the payload
Segment(marker, payload) ==
    <<255, marker, (Len(payload) + 2) \div 256, (Len(payload) + 2) % 256>>
        \o payload

\* a SOF0 segment of a 772 x 258 image
Sof0 == Segment(192, <<8, 1, 2, 3, 4>>)

\* payloads of 5 bytes: one like that of a SOF segment, one like a marker
\* with its length
MarkerPayloads == { <<8, 0, 9, 0, 10>>, <<255, 192, 0, 7, 8>> }

\* a: a segment of any marker code in front of a SOF0 segment; b: the SOF0
\* segment alone
MarkerCases ==
    { [tag |-> "marker",
       a   |-> JPEG_SOI \o Segment(m, p) \o Sof0,
       b   |-> JPEG_SOI \o Sof0] : m \in 0..255, p \in MarkerPayloads }

\* b: SOI and some pieces; a: the same with fill bytes in front of one piece
FillRun(k) == [i \in 1..k |-> 255]

FillCases ==
    UNION { { [tag |-> "fill",
               a   |-> JPEG_SOI \o Concat(SubSeq(ps, 1, j - 1)) \o FillRun(k)
                          \o Concat(SubSeq(ps, j, Len(ps))),
               b   |-> JPEG_SOI \o Concat(ps)] :
              j \in 1..Len(ps), k \in 1..MaxFill } :
            ps \in UNION { [1..n -> JpegPieces] : n \in 1..MaxFillPieces } }

\* what may follow width and height in a PNG file: nothing, the other 5
\* IHDR fields, a CRC, a CRC that is wrong and a further chunk
PngTails ==
    { <<>>,
      <<8, 2, 0, 0, 0>>,
      <<16, 6, 0, 0, 1>>,
      <<8, 2, 0, 0, 0, 1, 2, 3, 4>>,
      <<8, 2, 0, 0, 0, 0, 0, 0, 0, 0, 0, 0, 0, 73, 69, 78, 68>> }

\* a and b: the same signature, chunk header, width and height, and two
\* tails that each hold the bytes the chunk header declares
PngCases ==
    UNION { { [tag |-> "png",
               a   |-> PNG_SIGNATURE \o len \o type \o head \o ta,
               b   |-> PNG_SIGNATURE \o len \o type \o head \o tb] :
                 type \in { IHDR, <<73, 68, 65, 84>> },
                 head \in PngHeads,
                 ta   \in { t \in PngTails : 8 + Len(t) >= BE32(len) },
                 tb   \in { t \in PngTails : 8 + Len(t) >= BE32(len) } } :
            len \in { <<0, 0, 0, 0>>, <<0, 0, 0, 8>>, <<0, 0, 0, 9>>,
                      <<0, 0, 0, 13>> } }

\* what may stand behind the SOF segment that gives the size: nothing, a
\* stray byte, fill bytes, a segment cut in its length or in its payload,
\* a length of 1, a SOF segment too short for dimensions, a SOS header cut
\* short, a SOF segment with another size, EOI
LazyTails ==
    { <<>>,
      <<0>>,
      <<255, 255>>,
      <<255, 224, 0>>,
      <<255, 224, 0, 9, 1>>,
      <<255, 224, 0, 1>>,
      <<255, 193, 0, 3, 8>>,
      <<255, 218, 0>>,
      <<255, 192, 0, 7, 8, 0, 5, 0, 6>>,
      <<255, 217>> }

\* what may stand in front of it: nothing, a fill byte, a DHT segment
LazyHeads == { <<>>, <<255>>, Segment(196, <<8, 0, 9, 0, 10>>) }

\* a and b: the same bytes up to the end of a SOF segment with 5 or 6
\* payload bytes, and two tails
LazyCases ==
    { [tag |-> "lazy",
       a   |-> JPEG_SOI \o h \o sof \o ta,
       b   |-> JPEG_SOI \o h \o sof \o tb] :
         h   \in LazyHeads,
         sof \in { Sof0, Segment(194, <<8, 0, 100, 0, 200, 3>>) },
         ta  \in LazyTails,
         tb  \in LazyTails }

Cases == MarkerCases \cup FillCases \cup PngCases \cup LazyCases

InitRel ==
    /\ \E c \in Cases, op \in {"open", "verify"} :
          /\ fs = [p \in ConcPaths |->
                      File(IF p = PathOf(1) THEN c.a ELSE c.b)]
          /\ procs = [tag |-> c.tag, op |-> op,
                      out |-> [i \in Callers |-> NoResult]]
    /\ pc = "idle"
    /\ call = NoCall
    /\ fd = Closed
    /\ data = <<>>
    /\ offset = 0
    /\ scanned = 0
    /\ seg = NoSegment
    /\ pending = NoResult
    /\ result = NoResult
    /\ img = NoImage
    /\ modified = FALSE
    /\ io = <<>>
    /\ scope = NoScope

\* the file of caller i is identified, by open or by verify
identify(i) ==
    /\ procs.out[i].kind = "none"
    /\ procs' = [procs EXCEPT !.out[i] =
                    RunAlone(StartFrame(procs.op, PathOf(i)), <<>>,
                             fs[PathOf(i)])]
    /\ UNCHANGED <<fs, pc, call, fd, locals, pending, result, img, modified,
                   io, scope>>

NextRel == \E i \in Callers : identify(i)

SpecRel == InitRel /\ [][NextRel]_vars

\* =================================================================
\* Properties.  They read the bytes of the file themselves; nothing below
\* uses the operators that model the parser.
\* =================================================================

\* big-endian unsigned integer held in the n bytes of d from 0-based index i
RECURSIVE UIntBE(_, _, _)
UIntBE(d, i, n) == IF n = 0 THEN 0 ELSE UIntBE(d, i, n - 1) * 256 + d[i + n]

HasPrefix(d, p) == Len(d) >= Len(p) /\ \A i \in 1..Len(p) : d[i] = p[i]

PngMagic == <<137, 80, 78, 71, 13, 10, 26, 10>>
IhdrTag == <<73, 72, 68, 82>>
SofMarkers == {192, 193, 194, 195, 197, 198, 199, 201, 202, 203, 205, 206, 207}

\* the error kinds of the specification, by exception type and message
ErrorKind(r) ==
    CASE r.kind # "raise" -> "none"
      [] r.type = "FileNotFoundError" -> "NotFound"
      [] r.type \in {"ValueError", "TypeError"} -> "UnsupportedUsage"
      [] r.type = "UnidentifiedImageError"
         /\ r.msg = "Unsupported image format in " -> "UnidentifiedFormat"
      [] r.type = "UnidentifiedImageError"
         /\ r.msg = "Could not determine JPEG dimensions" -> "DimensionsNotFound"
      [] r.type = "UnidentifiedImageError"
         /\ r.msg \in {"Incomplete PNG header", "PNG missing IHDR chunk",
                       "Truncated PNG IHDR data", "Invalid JPEG signature",
                       "Malformed JPEG marker", "Truncated JPEG scan header",
                       "Truncated JPEG segment length",
                       "Incomplete JPEG segment",
                       "JPEG SOF segment too short"} -> "MalformedStructure"
      [] OTHER -> "unknown"

\* a call has returned or raised, and no file changed since
Done == pc = "idle" /\ result.kind # "none"

\* open(path) or open(path, "r") has completed
OpenedPath ==
    Done /\ call.op = "open" /\ call.mode \in {"None", "r"} /\ call.fp \in Paths

\* open or verify has completed on a file that exists: an identification
Identified ==
    /\ Done
    /\ \/ call.op = "verify"
       \/ call.op = "open" /\ call.mode \in {"None", "r"} /\ call.fp \in Paths
    /\ fs[call.fp].exists

TheFile == fs[call.fp].data

\* d is the PNG signature, a chunk header of type IHDR declaring L >= 8 data
\* bytes, and at least L bytes after it
IsValidPng(d) ==
    /\ Len(d) >= 16
    /\ HasPrefix(d, PngMagic)
    /\ \A i \in 1..4 : d[12 + i] = IhdrTag[i]
    /\ UIntBE(d, 8, 4) >= 8
    /\ Len(d) - 16 >= UIntBE(d, 8, 4)

\* C1: open of an existing file made of the PNG signature, a chunk header
\* IHDR declaring L >= 8 and at least L data bytes returns a handle with
\* format "PNG" and size (width, height): the big-endian 32-bit integers
\* at data offsets 0 and 4.
C1_PngDimensions ==
    (OpenedPath /\ fs[call.fp].exists /\ IsValidPng(TheFile)) =>
        LET size == <<UIntBE(TheFile, 16, 4), UIntBE(TheFile, 20, 4)>>
        IN  /\ result = Return("PNG", size)
            /\ img = ImageFile(call.fp, "PNG", size)

C1_Witness ==
    /\ OpenedPath /\ fs[call.fp].exists /\ IsValidPng(TheFile)
    /\ UIntBE(TheFile, 8, 4) > 8
    /\ Len(TheFile) > 16 + UIntBE(TheFile, 8, 4)
    /\ result.kind = "return"
    /\ result.size[1] > 65536
    /\ result.size[1] # result.size[2]

\* Where the walk over a JPEG stream stops: the 0-based offset, from b on,
\* of the first place where a marker should start that holds neither a fill
\* byte FF followed by FF, nor a complete length-prefixed segment whose
\* marker is not EOI, SOS or a SOF marker.
IsFill(d, b) == b + 2 <= Len(d) /\ d[b + 1] = 255 /\ d[b + 2] = 255

IsSkippedSegment(d, b) ==
    /\ b + 4 <= Len(d)
    /\ d[b + 1] = 255
    /\ d[b + 2] \notin ({255, 217, 218} \cup SofMarkers)
    /\ UIntBE(d, b + 2, 2) >= 2
    /\ b + 2 + UIntBE(d, b + 2, 2) <= Len(d)

RECURSIVE WalkStop(_, _)
WalkStop(d, b) ==
    IF IsFill(d, b) THEN WalkStop(d, b + 1)
    ELSE IF IsSkippedSegment(d, b)
    THEN WalkStop(d, b + 2 + UIntBE(d, b + 2, 2))
    ELSE b

\* a marker m with a readable length field starts at b
HasLengthField(d, b) == b + 4 <= Len(d) /\ d[b + 1] = 255 /\ d[b + 2] # 255

\* d starts with SOI and the walk stops at a complete SOF segment with at
\* least 5 payload bytes
ReachesSof(d) ==
    /\ HasPrefix(d, <<255, 216>>)
    /\ LET b == WalkStop(d, 2)
       IN  /\ HasLengthField(d, b)
           /\ d[b + 2] \in SofMarkers
           /\ UIntBE(d, b + 2, 2) >= 7
           /\ b + 2 + UIntBE(d, b + 2, 2) <= Len(d)

\* C2: open of an existing file that starts with FF D8 and whose walk over
\* well-formed segments from offset 2 reaches a SOF segment with at least
\* 5 payload bytes before EOI or SOS returns format "JPEG" and size
\* (width, height) with height at payload bytes 1-2 and width at payload
\* bytes 3-4 of that first SOF segment, whatever follows it.
C2_JpegDimensions ==
    (OpenedPath /\ fs[call.fp].exists /\ ReachesSof(TheFile)) =>
        LET b    == WalkStop(TheFile, 2)
            size == <<UIntBE(TheFile, b + 7, 2), UIntBE(TheFile, b + 5, 2)>>
        IN  /\ result = Return("JPEG", size)
            /\ img = ImageFile(call.fp, "JPEG", size)

\* a second SOF segment with other dimensions follows the first one, which
\* itself follows a skipped segment
C2_Witness ==
    /\ OpenedPath /\ fs[call.fp].exists /\ ReachesSof(TheFile)
    /\ IsSkippedSegment(TheFile, 2)
    /\ LET b == WalkStop(TheFile, 2)
           e == b + 2 + UIntBE(TheFile, b + 2, 2)
       IN  /\ HasLengthField(TheFile, e)
           /\ TheFile[e + 2] \in SofMarkers
           /\ UIntBE(TheFile, e + 2, 2) >= 7
           /\ e + 2 + UIntBE(TheFile, e + 2, 2) <= Len(TheFile)
           /\ UIntBE(TheFile, e + 7, 2) # UIntBE(TheFile, b + 7, 2)
    /\ result.kind = "return"
    /\ result.size[1] # result.size[2]

\* C3: identification of a file made of the PNG signature and a complete
\* 8-byte chunk header whose type is not IHDR or whose declared length is
\* below 8 fails with the MalformedStructure error "missing IHDR",
\* whatever bytes follow.
C3_MissingIhdr ==
    (/\ Identified
     /\ Len(TheFile) >= 16
     /\ HasPrefix(TheFile, PngMagic)
     /\ \/ \E i \in 1..4 : TheFile[12 + i] # IhdrTag[i]
        \/ UIntBE(TheFile, 8, 4) < 8) =>
        /\ result = Unidentified("PNG missing IHDR chunk")
        /\ ErrorKind(result) = "MalformedStructure"

\* an IHDR chunk declaring 7 bytes, followed by 8 or more bytes
C3_Witness ==
    /\ Identified
    /\ Len(TheFile) >= 24
    /\ HasPrefix(TheFile, PngMagic)
    /\ \A i \in 1..4 : TheFile[12 + i] = IhdrTag[i]
    /\ UIntBE(TheFile, 8, 4) = 7
    /\ result.kind = "raise"

\* d starts with SOI and the walk stops at the EOI marker
ReachesEoi(d) ==
    /\ HasPrefix(d, <<255, 216>>)
    /\ LET b == WalkStop(d, 2)
       IN  b + 2 <= Len(d) /\ d[b + 1] = 255 /\ d[b + 2] = 217

\* C4: identification of a stream made of SOI, zero or more well-formed
\* segments without SOF marker and then EOI fails with DimensionsNotFound
\* ("could not determine dimensions"); nothing after EOI is examined.
C4_EoiWithoutSof ==
    (Identified /\ ReachesEoi(TheFile)) =>
        /\ result = Unidentified("Could not determine JPEG dimensions")
        /\ ErrorKind(result) = "DimensionsNotFound"
        /\ scanned = WalkStop(TheFile, 2) + 2
        /\ offset = WalkStop(TheFile, 2) + 2

\* a skipped segment, EOI, and more bytes after it
C4_Witness ==
    /\ Identified /\ ReachesEoi(TheFile)
    /\ IsSkippedSegment(TheFile, 2)
    /\ Len(TheFile) > WalkStop(TheFile, 2) + 2
    /\ result.kind = "raise"

\* the walk stops at a marker, one of markers, whose length field declares
\* more bytes than the file holds from that field on
OverlongSegment(d, markers) ==
    /\ HasPrefix(d, <<255, 216>>)
    /\ LET b == WalkStop(d, 2)
       IN  /\ HasLengthField(d, b)
           /\ d[b + 2] \in markers
           /\ UIntBE(d, b + 2, 2) > Len(d) - (b + 2)

\* C5 as stated: a segment of any marker other than EOI whose declared
\* length exceeds the bytes remaining makes identification fail with the
\* MalformedStructure error "incomplete segment".
C5_AsStated ==
    (Identified /\ OverlongSegment(TheFile, 0..254 \ {217})) =>
        /\ result = Unidentified("Incomplete JPEG segment")
        /\ ErrorKind(result) = "MalformedStructure"

\* C5: a segment of any marker other than EOI and SOS, reached before any
\* SOF segment was returned, whose declared length exceeds the bytes
\* remaining makes identification fail with the MalformedStructure error
\* "incomplete segment", and no index beyond the data is read; for SOS the
\* scan stops without that check and DimensionsNotFound is reported.
C5_IncompleteSegment ==
    /\ (Identified /\ OverlongSegment(TheFile, 0..254 \ {217, 218})) =>
          /\ result = Unidentified("Incomplete JPEG segment")
          /\ ErrorKind(result) = "MalformedStructure"
          /\ scanned <= Len(TheFile)
    /\ (Identified /\ OverlongSegment(TheFile, {218})) =>
          /\ ErrorKind(result) = "DimensionsNotFound"
          /\ result = Unidentified("Could not determine JPEG dimensions")
          /\ scanned <= Len(TheFile)

\* an overlong segment after a skipped one
C5_Witness ==
    /\ Identified /\ OverlongSegment(TheFile, 0..254 \ {217, 218})
    /\ IsSkippedSegment(TheFile, 2)
    /\ result.kind = "raise"

\* C6: open of a path that does not exist raises NotFound after the
\* existence check alone: no file was opened, no byte read, no handle made.
C6_NotFound ==
    (OpenedPath /\ ~fs[call.fp].exists) =>
        /\ result = Raise("FileNotFoundError", "", call.fp)
        /\ ErrorKind(result) = "NotFound"
        /\ io = <<"exists">>
        /\ ~fd.open

C6_Witness ==
    /\ OpenedPath /\ ~fs[call.fp].exists
    /\ result.kind = "raise"

\* C7: open with a mode other than None or "r", or with a stream in place
\* of a path, raises UnsupportedUsage before any existence check, open or
\* read, whatever the other argument is.
C7_UnsupportedUsage ==
    (Done /\ call.op = "open"
          /\ (call.mode \notin {"None", "r"} \/ call.fp = Stream)) =>
        /\ result.kind = "raise"
        /\ result.type =
             IF call.mode \notin {"None", "r"} THEN "ValueError"
                                               ELSE "TypeError"
        /\ ErrorKind(result) = "UnsupportedUsage"
        /\ io = <<>>
        /\ ~fd.open

\* a binary read mode together with a path that does not exist
C7_Witness ==
    /\ Done /\ call.op = "open"
    /\ call.mode = "rb"
    /\ call.fp \in Paths
    /\ ~fs[call.fp].exists
    /\ result.kind = "raise"

\* the file operations of an identification, without the existence check
\* that open makes first
LoadOps == IF call.op = "open" THEN Tail(io) ELSE io

\* C8: identification of a file of 8 bytes or more that starts neither
\* with the PNG signature nor with FF D8 fails with UnidentifiedFormat
\* naming the path, after the read of the signature alone; a file with the
\* PNG signature goes to the PNG parser, a file starting with FF D8 to the
\* JPEG scanner, which gets the file from offset 0.
C8_Dispatch ==
    Identified =>
        /\ (/\ Len(TheFile) >= 8
            /\ ~HasPrefix(TheFile, PngMagic)
            /\ ~HasPrefix(TheFile, <<255, 216>>)) =>
              /\ result = Raise("UnidentifiedImageError",
                                "Unsupported image format in ", call.fp)
              /\ ErrorKind(result) = "UnidentifiedFormat"
              /\ LoadOps = <<"open", "read(8)", "close">>
              /\ data = <<>>
        /\ HasPrefix(TheFile, PngMagic) =>
              /\ SubSeq(LoadOps, 1, 3) = <<"open", "read(8)", "read(8)">>
              /\ data = <<>>
              /\ \/ result.kind = "return"
                    /\ call.op = "open" => result.format = "PNG"
                 \/ result.msg \in {"Incomplete PNG header",
                                    "PNG missing IHDR chunk",
                                    "Truncated PNG IHDR data"}
        /\ HasPrefix(TheFile, <<255, 216>>) =>
              /\ LoadOps = <<"open", "read(8)", "seek(0)", "read()", "close">>
              /\ data = TheFile

\* a file that starts with FF but not with FF D8, or with the first seven
\* bytes of the PNG signature
C8_Witness ==
    /\ Identified
    /\ Len(TheFile) >= 8
    /\ ~HasPrefix(TheFile, PngMagic)
    /\ ~HasPrefix(TheFile, <<255, 216>>)
    /\ TheFile[1] = 255
    /\ result.kind = "raise"

\* C9 as stated: identification of a file shorter than 8 bytes fails with
\* UnidentifiedFormat.
C9_AsStated ==
    (Identified /\ Len(TheFile) < 8) =>
        ErrorKind(result) = "UnidentifiedFormat"

\* C9: identification of a file shorter than 8 bytes never succeeds and
\* never fails with NotFound; it fails with UnidentifiedFormat unless the
\* file starts with FF D8, and then the JPEG scanner runs and it fails with
\* MalformedStructure or DimensionsNotFound.
C9_ShortFile ==
    (Identified /\ Len(TheFile) < 8) =>
        /\ result.kind = "raise"
        /\ result.type = "UnidentifiedImageError"
        /\ IF HasPrefix(TheFile, <<255, 216>>)
           THEN ErrorKind(result) \in {"MalformedStructure",
                                       "DimensionsNotFound"}
           ELSE ErrorKind(result) = "UnidentifiedFormat"

\* SOI and EOI alone
C9_Witness ==
    /\ Identified
    /\ TheFile = <<255, 216, 255, 217>>
    /\ ErrorKind(result) = "DimensionsNotFound"

\* a step of a verify call
VerifyStep ==
    \/ call.op = "verify" /\ pc # "idle"
    \/ call'.op = "verify" /\ pc' # "idle"

\* C10: while the file of a handle is not modified, every verify() on it
\* returns normally, however many were made before, and no step of verify
\* changes the handle or a file.
C10_VerifyIdempotent ==
    /\ []((Done /\ call.op = "verify" /\ ~modified) =>
            result = Return("", NoSize))
    /\ [][VerifyStep => (img' = img /\ fs' = fs)]_vars

C10_Witness ==
    /\ Done /\ call.op = "verify" /\ ~modified
    /\ result.kind = "return"
    /\ img.format = "JPEG"
    /\ io = <<"open", "read(8)", "seek(0)", "read()", "close">>

\* d is a file that the grammar of either format accepts
Parses(d) == IsValidPng(d) \/ ReachesSof(d)

\* a step of an open or a verify call
IdentStep == call'.op \in {"open", "verify"}

\* the step that completes an open(path) while the caller holds a handle of
\* that path
ReopenStep ==
    /\ pc = "load_exit" /\ call.op = "open"
    /\ img.valid /\ img.path = call.fp

\* C11: identification keeps no state between calls.  While the file of a
\* handle is not modified, no step of a further open or verify changes the
\* format or the size read from the handle, and every further open of the
\* path returns a handle with that same format and size.
C11_Deterministic ==
    [][(img.valid /\ ~modified /\ ~modified' /\ IdentStep) =>
          /\ img'.valid
          /\ img'.format = img.format
          /\ img'.size = img.size
          /\ ReopenStep =>
                /\ result' = Return(img.format, img.size)
                /\ img' = ImageFile(call.fp, img.format, img.size)]_vars

\* a second open of the unmodified file is about to return
C11_Witness ==
    /\ ReopenStep /\ ~modified
    /\ pending = Return(img.format, img.size)
    /\ img.format = "JPEG"

\* a verify has returned or raised, and no file changed since
VerifyDone == Done /\ call.op = "verify"

\* C12: verify() raises exactly when the file at the stored path, as it is
\* at that moment, is missing or does not parse: NotFound when it is
\* missing, UnidentifiedFormat when it starts with neither signature,
\* DimensionsNotFound or MalformedStructure when a recognised format does
\* not parse; otherwise verify returns None.
C12_VerifyRaises ==
    VerifyDone =>
        LET f == fs[call.fp]
            known == HasPrefix(f.data, PngMagic) \/ HasPrefix(f.data, <<255, 216>>)
        IN  /\ (result.kind = "raise") <=> ~(f.exists /\ Parses(f.data))
            /\ result.kind = "return" => result = Return("", NoSize)
            /\ ~f.exists => ErrorKind(result) = "NotFound"
            /\ (f.exists /\ ~known) =>
                  ErrorKind(result) = "UnidentifiedFormat"
            /\ (f.exists /\ known /\ ~Parses(f.data)) =>
                  ErrorKind(result) \in {"MalformedStructure",
                                         "DimensionsNotFound"}
            /\ (f.exists /\ ReachesEoi(f.data)) =>
                  ErrorKind(result) = "DimensionsNotFound"

\* verify has raised MalformedStructure on a file cut short after open
C12_Witness ==
    /\ VerifyDone /\ modified
    /\ fs[call.fp].exists /\ ~Parses(TheFile)
    /\ ErrorKind(result) = "MalformedStructure"

\* format and size that the bytes of a file that parses stand for
TrueFormat(d) == IF IsValidPng(d) THEN "PNG" ELSE "JPEG"
TrueSize(d) ==
    IF IsValidPng(d)
    THEN <<UIntBE(d, 16, 4), UIntBE(d, 20, 4)>>
    ELSE LET b == WalkStop(d, 2)
         IN  <<UIntBE(d, b + 7, 2), UIntBE(d, b + 5, 2)>>

\* the file of the handle was replaced by an image of another format or of
\* other dimensions
Replaced ==
    /\ img.valid /\ modified
    /\ fs[img.path].exists /\ Parses(fs[img.path].data)
    /\ <<img.format, img.size>> # <<TrueFormat(fs[img.path].data),
                                    TrueSize(fs[img.path].data)>>

\* C13: when the file of a handle has been replaced by a different valid
\* image, verify() returns None, and no step of verify changes the handle:
\* its format and size stay those of the open, unlike those of the file.
C13_ReplacedImage ==
    /\ []((VerifyDone /\ Replaced) => result = Return("", NoSize))
    /\ [][(Replaced /\ VerifyStep) => (img' = img /\ Replaced')]_vars

\* verify has returned on a handle that says PNG while the file is a JPEG
C13_Witness ==
    /\ VerifyDone /\ Replaced
    /\ result.kind = "return"
    /\ img.format = "PNG" /\ TrueFormat(TheFile) = "JPEG"

\* 0 <= n < 2^16, and 0 <= n < 2^32 said without writing 2^32
IsU16(n) == n \in Nat /\ n < 65536
IsU32(n) == n \in Nat /\ n \div 65536 < 65536

\* a step that ends an open call with an error
OpenFails == call'.op = "open" /\ pc' = "idle" /\ result'.kind = "raise"

\* C14: every handle has format "PNG" or "JPEG" and a size of two
\* non-negative integers, below 2^32 for PNG and below 2^16 for JPEG; while
\* its file is unmodified the handle holds exactly what the bytes of the
\* file stand for, and the file parses; an open that fails carries no
\* format and no size, and makes or changes no handle.
C14_HandleInvariant ==
    /\ [](img.valid =>
            /\ img.format \in {"PNG", "JPEG"}
            /\ Len(img.size) = 2
            /\ img.format = "PNG" => IsU32(img.size[1]) /\ IsU32(img.size[2])
            /\ img.format = "JPEG" => IsU16(img.size[1]) /\ IsU16(img.size[2]))
    /\ []((img.valid /\ ~modified) =>
            /\ fs[img.path].exists /\ Parses(fs[img.path].data)
            /\ img.format = TrueFormat(fs[img.path].data)
            /\ img.size = TrueSize(fs[img.path].data))
    /\ []((Done /\ call.op = "open" /\ result.kind = "raise") =>
            (result.format = "" /\ result.size = NoSize))
    /\ []((Done /\ call.op = "open" /\ result.kind = "return") =>
            img = ImageFile(call.fp, result.format, result.size))
    /\ [][OpenFails => img' = img]_vars

\* an open has failed on a file whose PNG signature and IHDR header are
\* there while its dimensions are cut short, and there is no handle
C14_Witness ==
    /\ OpenedPath /\ result = Unidentified("Truncated PNG IHDR data")
    /\ Len(TheFile) > 16
    /\ ~img.valid

\* the steps that enter and leave a with block
EnterStep == ~scope.active /\ scope'.active
ExitStep == pc = "scope_exit" /\ pc' = "idle"

\* C15: entering a with block on a handle binds that same handle; leaving
\* it calls close() exactly once, when the body ended normally and when it
\* raised, and an error of the body, be it its own or that of a verify()
\* made in it, is raised to the caller after the exit: the exception of
\* the verify() as it was raised, of the same kind and message.
C15_Scope ==
    /\ [](scope.active => (scope.target = img /\ img.valid))
    /\ [][EnterStep => (scope'.target = img /\ img' = img)]_vars
    /\ [][ExitStep =>
            /\ io' = <<"close()">>
            /\ ~scope'.active
            /\ img' = img
            /\ scope.body = "none" => result' = Return("", NoSize)
            /\ scope.body # "none" =>
                  (result'.kind = "raise" /\ result'.type = scope.body)
            /\ (call.op = "verify" /\ result.kind = "raise") =>
                  (result' = result /\ ErrorKind(result') = ErrorKind(result))
            /\ (call.op # "verify" /\ scope.body = "RuntimeError") =>
                  result' = Raise("RuntimeError", "", "")]_vars

\* a with block was left after a verify() in it raised: close was called
\* once and the error of verify reached the caller with its message
C15_Witness ==
    /\ Done /\ call.op = "__exit__"
    /\ io = <<"close()">>
    /\ result.kind = "raise" /\ result.type = "UnidentifiedImageError"
    /\ ErrorKind(result) = "DimensionsNotFound"
    /\ ~scope.active /\ img.valid

\* a step of close(), of a with block or of verify()
HandleStep == call'.op \in {"close", "__enter__", "__exit__", "verify"}

\* C16: no step of close(), of entering or leaving a with block, or of
\* verify() changes the handle or a file, and none but those of verify()
\* touches a file object; close() returns None, and after close(), called
\* by the caller or by __exit__, the handle is still one on which verify()
\* and close() can be called.
C16_CloseNoop ==
    /\ [][HandleStep => UNCHANGED <<img, fs, modified>>]_vars
    /\ [][(HandleStep /\ call'.op # "verify") => fd' = fd]_vars
    /\ []((Done /\ call.op = "close") => result = Return("", NoSize))
    /\ []((Done /\ call.op \in {"close", "__exit__"}) =>
            /\ img.valid /\ img.path \in Paths
            /\ img.format \in {"PNG", "JPEG"}
            /\ ~fd.open
            /\ ENABLED verify_enter
            /\ ENABLED close_call)

\* close() has returned inside a with block, whose exit will call it again
C16_Witness ==
    /\ Done /\ call.op = "close"
    /\ scope.active /\ scope.target = img
    /\ img.valid /\ ~modified
    /\ <<img.format, img.size>> =
          <<TrueFormat(fs[img.path].data), TrueSize(fs[img.path].data)>>

\* the walk over fill bytes and well-formed segments that stops at the
\* marker code 00 as it stops at SOF, EOI and SOS
RECURSIVE WalkToZero(_, _)
WalkToZero(d, b) ==
    IF IsFill(d, b) THEN WalkToZero(d, b + 1)
    ELSE IF IsSkippedSegment(d, b) /\ d[b + 2] # 0
    THEN WalkToZero(d, b + 2 + UIntBE(d, b + 2, 2))
    ELSE b

\* d starts with SOI and the scanner reads FF 00 where it expects a marker,
\* before any SOF segment
ReachesZeroMarker(d) ==
    /\ HasPrefix(d, <<255, 216>>)
    /\ LET b == WalkToZero(d, 2)
       IN  b + 2 <= Len(d) /\ d[b + 1] = 255 /\ d[b + 2] = 0

\* C17 as stated: when the scanner reads FF 00 where it expects a marker,
\* before any SOF segment, identification fails with MalformedStructure:
\* the pair is not skipped as a segment with a length field.
C17_AsStated ==
    (Identified /\ ReachesZeroMarker(TheFile)) =>
        ErrorKind(result) = "MalformedStructure"

\* d starts with SOI and the walk stops at an SOS marker whose two length
\* bytes are there
ReachesSos(d) ==
    /\ HasPrefix(d, <<255, 216>>)
    /\ LET b == WalkStop(d, 2)
       IN  HasLengthField(d, b) /\ d[b + 2] = 218

\* C18: when the scanner reaches, before any SOF segment, an SOS marker
\* with its two length bytes, identification fails with DimensionsNotFound
\* whatever follows, and no byte after the length field has been examined.
C18_StopAtSos ==
    (Identified /\ ReachesSos(TheFile)) =>
        /\ result = Unidentified("Could not determine JPEG dimensions")
        /\ ErrorKind(result) = "DimensionsNotFound"
        /\ scanned = WalkStop(TheFile, 2) + 4

\* a complete SOF0 segment follows the scan header at once
C18_Witness ==
    /\ Identified /\ ReachesSos(TheFile)
    /\ LET b == WalkStop(TheFile, 2)
       IN  /\ UIntBE(TheFile, b + 2, 2) = 2
           /\ Len(TheFile) >= b + 13
           /\ TheFile[b + 5] = 255 /\ TheFile[b + 6] = 192
           /\ UIntBE(TheFile, b + 6, 2) = 7
    /\ result.kind = "raise"

\* how often the event x is in the trace t
Count(t, x) == Cardinality({ i \in DOMAIN t : t[i] = x })

\* the events that read a file or ask for it
ReadEvents == {"exists", "read(8)", "read(length)", "seek(0)", "read()"}

\* C19: an identification of a file that exists, made by open or by verify,
\* opens the file once and closes it once, as its last operation, whether
\* it returns or raises, and does nothing in between but read; no file
\* object is open between calls, and no step of a call changes a file.
C19_OneFileObject ==
    /\ [](Identified =>
            /\ Count(io, "open") = 1
            /\ Count(io, "close") = 1
            /\ io[Len(io)] = "close"
            /\ \A i \in DOMAIN io :
                  io[i] \in ReadEvents \cup {"open", "close"}
            /\ \A i \in DOMAIN io :
                  io[i] \in ReadEvents \ {"exists"} =>
                     \E j \in 1..(i - 1) : io[j] = "open")
    /\ [](pc \in {"idle", "open_exists", "load_open", "scope_exit"}
             <=> ~fd.open)
    /\ [][(pc # "idle" \/ pc' # "idle") => fs' = fs]_vars

\* a verify has raised DimensionsNotFound and the file is closed
C19_Witness ==
    /\ Identified /\ call.op = "verify"
    /\ ErrorKind(result) = "DimensionsNotFound"
    /\ io[Len(io)] = "close" /\ ~fd.open

\* the outcome of caller i had it run alone
Alone(i) ==
    LET f == procs.frames[i]
    IN  RunAlone(StartFrame(f.op, f.path), <<>>, fs[f.path])

\* C20: however the steps of concurrent open and verify calls on different
\* unchanged files interleave, each call ends with the result or the error
\* it has when it runs alone: a return exactly for a file that is there and
\* parses, and from open the format and size of its own file.
C20_Independent ==
    \A i \in Callers :
        LET f == procs.frames[i]
            file == fs[f.path]
        IN  f.pc = "done" =>
              /\ f.result = Alone(i)
              /\ f.result.kind = "return" <=>
                    (file.exists /\ Parses(file.data))
              /\ (f.result.kind = "return" /\ f.op = "open") =>
                    f.result = Return(TrueFormat(file.data),
                                      TrueSize(file.data))
              /\ ~f.open

\* two calls that overlapped are both over: an open that returned a JPEG
\* and an open that returned a PNG
C20_Witness ==
    /\ \A i \in Callers : procs.frames[i].pc = "done"
    /\ procs.overlap
    /\ procs.frames[1].result.format = "JPEG"
    /\ procs.frames[2].result.format = "PNG"

\* the file of the handle is an uncorrupted PNG or JPEG
Uncorrupted ==
    /\ img.valid /\ fs[img.path].exists /\ Parses(fs[img.path].data)

\* C21 as stated: on an uncorrupted file no call of the sequence of the
\* image test raises: the open, the verify() in the first with block and
\* the load() in the second.
C21_AsStated ==
    (Done /\ Uncorrupted /\ call.fp = img.path
          /\ call.op \in {"open", "verify", "load"}
          /\ call.mode = "None") =>
        result.kind = "return"

\* d is the PNG signature and a chunk header of type IHDR declaring
\* L >= 8 data bytes, with fewer than L bytes after it
IsShortIhdr(d) ==
    /\ Len(d) >= 16
    /\ HasPrefix(d, PngMagic)
    /\ \A i \in 1..4 : d[12 + i] = IhdrTag[i]
    /\ UIntBE(d, 8, 4) >= 8
    /\ Len(d) - 16 < UIntBE(d, 8, 4)

\* C22: identification of a PNG file whose first chunk header has type
\* IHDR and declares L >= 8 data bytes, with fewer than L bytes after it,
\* fails with the MalformedStructure error "truncated IHDR", be there 8
\* data bytes or more or fewer; an open of it makes no handle.
C22_TruncatedIhdr ==
    (Identified /\ IsShortIhdr(TheFile)) =>
        /\ result = Unidentified("Truncated PNG IHDR data")
        /\ ErrorKind(result) = "MalformedStructure"
        /\ (call.op = "open" /\ ~modified) => ~img.valid

\* the 8 bytes of width and height are there, the 9th declared byte is not
C22_Witness ==
    /\ OpenedPath /\ fs[call.fp].exists /\ IsShortIhdr(TheFile)
    /\ UIntBE(TheFile, 8, 4) = 9
    /\ Len(TheFile) = 24
    /\ result.kind = "raise"

\* d starts with SOI and the walk stops at a complete SOF segment with
\* fewer than 5 payload bytes
ReachesShortSof(d) ==
    /\ HasPrefix(d, <<255, 216>>)
    /\ LET b == WalkStop(d, 2)
       IN  /\ HasLengthField(d, b)
           /\ d[b + 2] \in SofMarkers
           /\ UIntBE(d, b + 2, 2) \in 2..6
           /\ b + 2 + UIntBE(d, b + 2, 2) <= Len(d)

\* C23: when the first SOF segment that the scanner reaches has fewer than
\* 5 payload bytes, identification fails with the MalformedStructure error
\* "SOF segment too short", whatever follows that segment, and nothing
\* after the segment has been examined.
C23_ShortSof ==
    (Identified /\ ReachesShortSof(TheFile)) =>
        LET b == WalkStop(TheFile, 2)
        IN  /\ result = Unidentified("JPEG SOF segment too short")
            /\ ErrorKind(result) = "MalformedStructure"
            /\ scanned = b + 2 + UIntBE(TheFile, b + 2, 2)

\* a complete SOF0 segment with 5 payload bytes follows the short one
C23_Witness ==
    /\ Identified /\ ReachesShortSof(TheFile)
    /\ LET e == WalkStop(TheFile, 2) + 2
                   + UIntBE(TheFile, WalkStop(TheFile, 2) + 2, 2)
       IN  /\ Len(TheFile) >= e + 9
           /\ TheFile[e + 1] = 255 /\ TheFile[e + 2] = 192
           /\ UIntBE(TheFile, e + 2, 2) = 7
    /\ result.kind = "raise"

\* both files of a case have been identified
BothDone == \A i \in Callers : procs.out[i].kind # "none"
FileA == fs[PathOf(1)].data
FileB == fs[PathOf(2)].data
OutA == procs.out[1]
OutB == procs.out[2]

\* what an open returns, or a verify, for format and size
Returned(fmt, size) ==
    IF procs.op = "open" THEN Return(fmt, size) ELSE Return("", NoSize)

\* in file A a complete segment with 5 payload bytes and the marker at
\* offset 3 stands between SOI and a SOF0 segment
MarkerCase == procs.tag = "marker" /\ BothDone

\* C24 as stated: the segment supplies the dimensions exactly when its
\* marker is a SOF marker, and a segment of any other marker is skipped:
\* the file is identified as the file without that segment.
C24_AsStated ==
    MarkerCase =>
        IF FileA[4] \in SofMarkers
        THEN OutA = Returned("JPEG", <<UIntBE(FileA, 9, 2),
                                       UIntBE(FileA, 7, 2)>>)
        ELSE FileA[4] # 255 => OutA = OutB

\* C24: the segment supplies the dimensions exactly when its marker is a
\* SOF marker; a segment of any other marker but EOI (D9) and SOS (DA) is
\* skipped whatever its payload holds, and the file is identified as the
\* file without that segment; at EOI and at SOS the scan stops and the
\* file has no dimensions.
C24_SofMarkers ==
    MarkerCase =>
        /\ OutB = Returned("JPEG", <<772, 258>>)
        /\ CASE FileA[4] \in SofMarkers ->
                  OutA = Returned("JPEG", <<UIntBE(FileA, 9, 2),
                                            UIntBE(FileA, 7, 2)>>)
             [] FileA[4] \in {217, 218} ->
                  ErrorKind(OutA) = "DimensionsNotFound"
             [] FileA[4] = 255 -> OutA.kind = "raise"
             [] OTHER -> OutA = OutB

\* a DHT segment (C4) whose payload reads like a marker was skipped
C24_Witness ==
    /\ MarkerCase /\ procs.op = "open"
    /\ FileA[4] = 196 /\ FileA[7] = 255 /\ FileA[8] = 192
    /\ OutA = Return("JPEG", <<772, 258>>)

\* the offsets of d, from b on, at which the scanner looks for a marker and
\* finds FF
RECURSIVE MarkerStarts(_, _)
MarkerStarts(d, b) ==
    IF b + 1 > Len(d) \/ d[b + 1] # 255 THEN {}
    ELSE {b} \cup (IF IsFill(d, b) THEN MarkerStarts(d, b + 1)
                   ELSE IF IsSkippedSegment(d, b)
                   THEN MarkerStarts(d, b + 2 + UIntBE(d, b + 2, 2))
                   ELSE {})

\* x is y with k more FF bytes at offset b
IsInsertion(x, y, b, k) ==
    /\ Len(x) = Len(y) + k
    /\ \A i \in 1..Len(x) :
          x[i] = IF i <= b THEN y[i]
                 ELSE IF i <= b + k THEN 255
                 ELSE y[i - k]

\* file A is file B, a stream that starts with SOI, with extra fill bytes
\* right in front of a marker that the scanner reaches
FillCase ==
    /\ procs.tag = "fill" /\ BothDone
    /\ HasPrefix(FileB, <<255, 216>>)
    /\ \E b \in MarkerStarts(FileB, 2) :
          IsInsertion(FileA, FileB, b, Len(FileA) - Len(FileB))

\* C25: a JPEG stream with extra FF fill bytes right in front of a marker
\* is identified as the stream without them: the same format and size, or
\* the same error.
C25_FillBytes ==
    FillCase =>
        /\ OutA = OutB
        /\ ErrorKind(OutA) = ErrorKind(OutB)

\* two fill bytes went in front of the SOF0 segment that gives the size,
\* behind a segment that is skipped
C25_Witness ==
    /\ FillCase /\ procs.op = "open"
    /\ Len(FileA) = Len(FileB) + 2
    /\ IsSkippedSegment(FileB, 2)
    /\ LET b == WalkStop(FileB, 2)
       IN  /\ b > 2 /\ b \in MarkerStarts(FileB, 2)
           /\ IsInsertion(FileA, FileB, b, 2)
           /\ HasLengthField(FileB, b) /\ FileB[b + 2] = 192
    /\ OutA = Return("JPEG", <<772, 258>>)

\* files A and B start with the PNG signature, agree on their first 24
\* bytes and each hold the data bytes that the chunk header declares
PngCase ==
    /\ procs.tag = "png" /\ BothDone
    /\ HasPrefix(FileA, PngMagic)
    /\ Len(FileA) >= 24 /\ Len(FileB) >= 24
    /\ \A i \in 1..24 : FileA[i] = FileB[i]
    /\ Len(FileA) - 16 >= UIntBE(FileA, 8, 4)
    /\ Len(FileB) - 16 >= UIntBE(FileB, 8, 4)

\* C26: two PNG files that agree on their first 24 bytes and each hold the
\* declared data bytes are identified alike, whatever the other IHDR
\* fields, the CRC and later chunks are: the same return or the same error.
C26_FirstChunkOnly ==
    PngCase =>
        /\ OutA = OutB
        /\ IsValidPng(FileA) =>
              OutA = Returned("PNG", <<UIntBE(FileA, 16, 4),
                                       UIntBE(FileA, 20, 4)>>)

\* an IHDR chunk of 13 bytes without CRC, and one with other fields, a CRC
\* of zeros and a chunk behind it: both opened with the same size
C26_Witness ==
    /\ PngCase /\ procs.op = "open"
    /\ UIntBE(FileA, 8, 4) = 13
    /\ Len(FileA) = 29 /\ Len(FileB) = 41
    /\ OutA.kind = "return" /\ OutA.format = "PNG"

\* d starts with SOI and the walk stops in front of a byte other than FF
ReachesStrayByte(d) ==
    /\ HasPrefix(d, <<255, 216>>)
    /\ LET b == WalkStop(d, 2)
       IN  b + 1 <= Len(d) /\ d[b + 1] # 255

\* C27: when the byte at offset 2, or right behind the payload of a
\* skipped segment, is not FF, identification fails with the
\* MalformedStructure error "malformed marker" whatever follows, and no
\* byte behind that one has been examined.
C27_MalformedMarker ==
    (Identified /\ ReachesStrayByte(TheFile)) =>
        /\ result = Unidentified("Malformed JPEG marker")
        /\ ErrorKind(result) = "MalformedStructure"
        /\ scanned = WalkStop(TheFile, 2) + 1

\* a stray byte behind a skipped segment, and a SOF0 segment behind it
C27_Witness ==
    /\ Identified /\ ReachesStrayByte(TheFile)
    /\ LET b == WalkStop(TheFile, 2)
       IN  /\ b > 2
           /\ Len(TheFile) >= b + 10
           /\ TheFile[b + 2] = 255 /\ TheFile[b + 3] = 192
           /\ UIntBE(TheFile, b + 3, 2) = 7
    /\ result.kind = "raise"

\* d starts with SOI and the walk stops at a marker with a declared length
\* of 0 or 1
ReachesTinyLength(d) ==
    /\ HasPrefix(d, <<255, 216>>)
    /\ LET b == WalkStop(d, 2)
       IN  /\ HasLengthField(d, b)
           /\ d[b + 2] \notin {217, 218}
           /\ UIntBE(d, b + 2, 2) < 2

\* C28: the JPEG scan of a file that starts with FF D8 comes to an end,
\* with format and size or with MalformedStructure or DimensionsNotFound.
\* From one loop head to the next the offset grows: by 3 or more up to the
\* yield and by the payload, never backwards, after it; a declared length
\* of 0 or 1 is an incomplete segment.  At a loop head and at a yield the
\* offset lies within the data, and nothing beyond the data is examined.
C28_ScanTerminates ==
    /\ (pc = "read_jpeg") ~> (pc = "idle")
    /\ []((Identified /\ HasPrefix(TheFile, <<255, 216>>)) =>
            \/ result.kind = "return"
            \/ ErrorKind(result) \in {"MalformedStructure",
                                      "DimensionsNotFound"})
    /\ []((Identified /\ ReachesTinyLength(TheFile)) =>
            result = Unidentified("Incomplete JPEG segment"))
    /\ [](pc \in {"jpeg_loop", "jpeg_body"} =>
            (2 <= offset /\ offset <= Len(data) /\ scanned <= Len(data)))
    /\ [][(pc = "jpeg_loop" /\ pc' = "jpeg_body") =>
             offset' >= offset + 3]_vars
    /\ [][(pc = "jpeg_body" /\ pc' = "jpeg_loop") =>
             (offset' >= offset /\ offset' <= Len(data))]_vars

\* behind a skipped segment stands a segment that declares the length 1,
\* and the scan ended with "incomplete segment"
C28_Witness ==
    /\ Identified /\ ReachesTinyLength(TheFile)
    /\ WalkStop(TheFile, 2) > 2
    /\ UIntBE(TheFile, WalkStop(TheFile, 2) + 2, 2) = 1
    /\ ErrorKind(result) = "MalformedStructure"

\* d starts with SOI and the walk stops where the bytes run out: behind
\* SOI or the payload of a skipped segment, or at a last FF that only fill
\* bytes or nothing precede since then
RunsOut(d) ==
    /\ HasPrefix(d, <<255, 216>>)
    /\ LET b == WalkStop(d, 2)
       IN  \/ b = Len(d)
           \/ b + 1 = Len(d) /\ d[b + 1] = 255

\* C29: identification of a JPEG stream whose bytes run out at a segment
\* boundary or inside trailing FF fill bytes, with no EOI, SOS or SOF marker
\* reached, fails with DimensionsNotFound ("could not determine
\* dimensions"), as it does for a stream whose walk ends at EOI; it is not
\* a MalformedStructure failure.
C29_MissingEoi ==
    (Identified /\ (RunsOut(TheFile) \/ ReachesEoi(TheFile))) =>
        /\ result = Unidentified("Could not determine JPEG dimensions")
        /\ ErrorKind(result) = "DimensionsNotFound"
        /\ ErrorKind(result) # "MalformedStructure"

\* a skipped segment and two fill bytes, then nothing
C29_Witness ==
    /\ Identified /\ RunsOut(TheFile)
    /\ IsSkippedSegment(TheFile, 2)
    /\ IsFill(TheFile, Len(TheFile) - 2)
    /\ WalkStop(TheFile, 2) = Len(TheFile) - 1
    /\ result.kind = "raise"

\* the 0-based offset just behind the segment at which the walk over d stops
SofEnd(d) == WalkStop(d, 2) + 2 + UIntBE(d, WalkStop(d, 2) + 2, 2)

\* in both files the walk reaches a complete SOF segment with at least 5
\* payload bytes, and the files are the same up to the end of that segment
LazyCase ==
    /\ procs.tag = "lazy" /\ BothDone
    /\ ReachesSof(FileA) /\ ReachesSof(FileB)
    /\ SofEnd(FileA) = SofEnd(FileB)
    /\ SubSeq(FileA, 1, SofEnd(FileA)) = SubSeq(FileB, 1, SofEnd(FileB))

\* C30: two files that are the same up to the end of the first SOF segment
\* with at least 5 payload bytes are identified alike, whatever stands
\* behind that segment in either of them: open returns "JPEG" with the
\* width and height of that segment for both, and verify returns normally
\* for both.
C30_Lazy ==
    LazyCase =>
        LET b == WalkStop(FileA, 2)
        IN  /\ OutA = OutB
            /\ OutA = Returned("JPEG", <<UIntBE(FileA, b + 7, 2),
                                         UIntBE(FileA, b + 5, 2)>>)
            /\ OutA.kind = "return" /\ OutB.kind = "return"

\* file A ends with the SOF segment and file B goes on with a stray byte;
\* verify returned for both
C30_Witness ==
    /\ LazyCase /\ procs.op = "verify"
    /\ Len(FileA) = SofEnd(FileA)
    /\ Len(FileB) = SofEnd(FileB) + 1
    /\ FileB[Len(FileB)] = 0
    /\ OutA.kind = "return" /\ OutB.kind = "return"

====
